---- MODULE Spec2Model ----
(***************************************************************************)
(* Model of the cookies command line tool (src/main.go): flag resolution,  *)
(* aggregation of cookies over the enumerated cookie stores, the output    *)
(* formatters and the top-level run.                                       *)
(*                                                                         *)
(* Strings that are only compared for equality are TLA+ strings.  Browser  *)
(* identities are sequences of string segments, so that one identity can   *)
(* be a proper part of another one.  The cookie store library (kooky) is   *)
(* external: what a store's ReadCookies returns is chosen at the call.     *)
(***************************************************************************)
EXTENDS Integers, Sequences, FiniteSets, TLC

VARIABLES
    browser,            \* flag --browser
    curl,               \* flag --curl
    domain,             \* flag --domain
    name,               \* flag --name
    fullCookieInfo,     \* flag --full
    showExpired,        \* flag --expired
    help,               \* flag --help
    debug,              \* flag --log-debug
    nflag,              \* pflag.NFlag(): number of flags given on the command line
    cookieStoreErrors,  \* global list of store error texts
    cookieStores,       \* kooky.FindAllCookieStores(): Browser() of each store
    idx,                \* position of the range loop of getCookies (1-based)
    deferred,           \* stack of deferred store.Close() calls, newest first
    closed,             \* closed[i]: number of Close() calls store i has had
    cookies,            \* the slice `cookies` of getCookies, then of run
    err,                \* the error value getCookies / run ends with
    stdout,             \* lines written with fmt.Println
    retValue,           \* result of a formatter applied on its own
    pc,                 \* position of the program
    reads,              \* history: what happened at each store visited
    origin              \* history: store index each element of cookies came from

vars == <<browser, curl, domain, name, fullCookieInfo, showExpired, help, debug,
          nflag, cookieStoreErrors, cookieStores, idx, deferred, closed,
          cookies, err, stdout, retValue, pc, reads, origin>>

flagVars == <<browser, curl, domain, name, fullCookieInfo, showExpired, help,
              debug, nflag>>

----------------------------------------------------------------------------
(* Bounds *)

MaxStores == 2          \* stores FindAllCookieStores returns
MaxStoreCookies == 2    \* records one ReadCookies returns
MaxLen == 3             \* length of a sequence handed to a formatter on its own

----------------------------------------------------------------------------
(* Value domains *)

Chrome == <<"chrom", "e">>      \* "chrome", the default of --browser
Chrom == <<"chrom">>            \* "chrom", a proper part of "chrome"
Firefox == <<"firefox">>
BrowserIds == {Chrome, Chrom}

ErrTexts == {"locked", "missing"}

Cookie(n, v) == [Name |-> n, Value |-> v]
StoreCookieRecs == {Cookie("a", ""), Cookie("b", "x")}
CookieRecs == {Cookie(n, v) : n \in {"a", "b"}, v \in {"", "x", "y"}}

SeqsUpTo(S, n) == UNION {[1..k -> S] : k \in 0..n}

NoErr == "nil"
NilSlice == [isNil |-> TRUE, elems |-> <<>>]
Slice(s) == [isNil |-> FALSE, elems |-> s]

----------------------------------------------------------------------------
(* getCookies *)

\* the filters passed to ReadCookies
Filters(expired) ==
    (IF ~expired THEN <<"Valid">> ELSE <<>>) \o <<"DomainContains">>

\* what a call of store.ReadCookies can do: return records with or without an
\* error, or panic
ReadOutcomes ==
    {[kind |-> "ok", cookies |-> c, err |-> NoErr] :
        c \in SeqsUpTo(StoreCookieRecs, MaxStoreCookies)}
    \cup {[kind |-> "err", cookies |-> c, err |-> e] :
        c \in SeqsUpTo(StoreCookieRecs, MaxStoreCookies), e \in ErrTexts}
    \cup {[kind |-> "panic", cookies |-> <<>>, err |-> NoErr]}

\* defer store.Close()
DeferClose(stack, i) == <<i>> \o stack

\* a partial match in place of the equality: a store is read when the requested
\* string is a part of its identity
IsPartOf(a, b) == Len(a) <= Len(b) /\ SubSeq(b, 1, Len(a)) = a
BrowserMismatchPartial(storeBrowser, b) == ~IsPartOf(b, storeBrowser)

\* store.Browser() != browser
BrowserMismatch(storeBrowser, b) == storeBrowser # b

\* an assignment in place of the append: only the last error is kept
RecordStoreErrorKeepsLast(errs, e) == IF e # NoErr THEN <<e>> ELSE errs

\* if err != nil { cookieStoreErrors = append(cookieStoreErrors, err.Error()) }
RecordStoreError(errs, e) == IF e # NoErr THEN Append(errs, e) ELSE errs

\* an append that always allocates: the result is never nil
GoAppendAllocates(s, xs) == Slice(s.elems \o xs)

\* append(s, xs...): a nil slice stays nil when nothing is appended
GoAppend(s, xs) ==
    IF Len(xs) = 0 THEN s ELSE Slice(s.elems \o xs)

\* every deferred call closes the store of the last iteration, as deferred
\* closures sharing the loop variable would
RunDeferredLastOnly(cl, stack) ==
    [i \in DOMAIN cl |->
        cl[i] + (IF Len(stack) > 0 /\ stack[1] = i THEN Len(stack) ELSE 0)]

\* the deferred calls run when the function returns or unwinds: newest first,
\* each once
RunDeferred(cl, stack) ==
    [i \in DOMAIN cl |->
        cl[i] + Cardinality({k \in 1..Len(stack) : stack[k] = i})]

\* cookies == nil
IsNotFound(cs) == cs.isNil

\* one iteration for a store of another browser
SkipStore ==
    /\ pc = "getCookies"
    /\ idx <= Len(cookieStores)
    /\ BrowserMismatch(cookieStores[idx], browser)
    /\ deferred' = DeferClose(deferred, idx)
    /\ reads' = Append(reads, [kind |-> "skip", cookies |-> <<>>, err |-> NoErr,
                               filters |-> <<>>])
    /\ idx' = idx + 1
    /\ UNCHANGED <<flagVars, cookieStoreErrors, cookieStores, closed, cookies,
                   err, stdout, retValue, pc, origin>>

\* one iteration for a store of the requested browser whose read returns
ReadStore ==
    /\ pc = "getCookies"
    /\ idx <= Len(cookieStores)
    /\ ~BrowserMismatch(cookieStores[idx], browser)
    /\ \E out \in ReadOutcomes :
        /\ out.kind # "panic"
        /\ deferred' = DeferClose(deferred, idx)
        /\ cookieStoreErrors' = RecordStoreError(cookieStoreErrors, out.err)
        /\ cookies' = GoAppend(cookies, out.cookies)
        /\ origin' = origin \o [k \in 1..Len(out.cookies) |-> idx]
        /\ reads' = Append(reads, [kind |-> out.kind, cookies |-> out.cookies,
                                   err |-> out.err,
                                   filters |-> Filters(showExpired)])
    /\ idx' = idx + 1
    /\ UNCHANGED <<flagVars, cookieStores, closed, err, stdout, retValue, pc>>

\* one iteration for a store of the requested browser whose read panics: the
\* function unwinds, running the calls deferred so far, and the program dies
ReadPanics ==
    /\ pc = "getCookies"
    /\ idx <= Len(cookieStores)
    /\ ~BrowserMismatch(cookieStores[idx], browser)
    /\ \E out \in ReadOutcomes :
        /\ out.kind = "panic"
        /\ reads' = Append(reads, [kind |-> out.kind, cookies |-> out.cookies,
                                   err |-> out.err,
                                   filters |-> Filters(showExpired)])
    /\ closed' = RunDeferred(closed, DeferClose(deferred, idx))
    /\ deferred' = <<>>
    /\ pc' = "panicked"
    /\ UNCHANGED <<flagVars, cookieStoreErrors, cookieStores, idx, cookies,
                   err, stdout, retValue, origin>>

\* the loop is over: getCookies returns, and the deferred calls run
ReturnGetCookies ==
    /\ pc = "getCookies"
    /\ idx > Len(cookieStores)
    /\ closed' = RunDeferred(closed, deferred)
    /\ deferred' = <<>>
    /\ IF IsNotFound(cookies)
          THEN /\ err' = "no cookies found"
               /\ cookies' = NilSlice
          ELSE /\ err' = NoErr
               /\ cookies' = cookies
    /\ pc' = "returned"
    /\ UNCHANGED <<flagVars, cookieStoreErrors, cookieStores, idx, stdout,
                   retValue, reads, origin>>

\* the state getCookies starts in
GetCookiesEntry ==
    /\ cookieStoreErrors = <<>>
    /\ cookieStores \in SeqsUpTo(BrowserIds, MaxStores)
    /\ idx = 1
    /\ deferred = <<>>
    /\ closed = [i \in 1..Len(cookieStores) |-> 0]
    /\ cookies = NilSlice
    /\ err = NoErr
    /\ reads = <<>>
    /\ origin = <<>>

\* getCookies called with any browser, with or without --expired
Init ==
    /\ browser \in BrowserIds
    /\ curl = FALSE
    /\ domain = "d"
    /\ name = ""
    /\ fullCookieInfo = FALSE
    /\ showExpired \in BOOLEAN
    /\ help = FALSE
    /\ debug = FALSE
    /\ nflag = 1
    /\ GetCookiesEntry
    /\ stdout = <<>>
    /\ retValue = "none"
    /\ pc = "getCookies"

Next == SkipStore \/ ReadStore \/ ReadPanics \/ ReturnGetCookies

Spec == Init /\ [][Next]_vars

----------------------------------------------------------------------------
(* Output formatters *)

\* byte order of the cookie names in use, as sort.Strings sees them
ByteOf == [n \in {"a", "b", "c"} |-> IF n = "a" THEN 97 ELSE IF n = "b" THEN 98 ELSE 99]

Digit == <<"0", "1", "2", "3", "4", "5", "6", "7", "8", "9">>
DigitVal(d) == CHOOSE v \in 0..9 : Digit[v + 1] = d

RECURSIVE Itoa(_)
\* strconv.Itoa for n >= 0: the decimal digits of n
Itoa(n) ==
    IF n < 10 THEN <<Digit[n + 1]>>
    ELSE Itoa(n \div 10) \o <<Digit[(n % 10) + 1]>>

\* byte order of two digit strings
DigitsLess(x, y) ==
    \E k \in 1..Len(y) :
        /\ Len(x) >= k - 1
        /\ SubSeq(x, 1, k - 1) = SubSeq(y, 1, k - 1)
        /\ (Len(x) = k - 1 \/ DigitVal(x[k]) < DigitVal(y[k]))

\* json.Marshal of a map[string]string: one "key":"value" pair per key, the
\* keys in sorted order; rank[k] is the place of key k in the byte order
Marshal(m, rank) ==
    LET ks == DOMAIN m
        n == Cardinality(ks)
        order == CHOOSE f \in [1..n -> ks] :
                    \A i, j \in 1..n : i < j => rank[f[i]] < rank[f[j]]
    IN  [i \in 1..n |-> <<order[i], m[order[i]]>>]

RECURSIVE CookiesMapFirst(_)
\* a map that keeps the first value written under a name
CookiesMapFirst(cs) ==
    IF cs = <<>> THEN <<>>
    ELSE LET rest == CookiesMapFirst(SubSeq(cs, 1, Len(cs) - 1))
             last == cs[Len(cs)]
         IN  IF last.Name \in DOMAIN rest THEN rest
             ELSE [k \in DOMAIN rest \cup {last.Name} |->
                      IF k = last.Name THEN last.Value ELSE rest[k]]

RECURSIVE CookiesMap(_)
\* for _, item := range cookies { cookiesMap[item.Name] = item.Value }
CookiesMap(cs) ==
    IF cs = <<>> THEN <<>>
    ELSE LET rest == CookiesMap(SubSeq(cs, 1, Len(cs) - 1))
             last == cs[Len(cs)]
         IN  [k \in DOMAIN rest \cup {last.Name} |->
                 IF k = last.Name THEN last.Value ELSE rest[k]]

serializeCookiesToJson(cs) ==
    [value |-> Marshal(CookiesMap(cs), ByteOf), err |-> NoErr]

\* the fields of a record the full output shows: Container for firefox only
FullFields(b) ==
    {"Cookie", "Creation"} \cup (IF b # Firefox THEN {} ELSE {"Container"})

RECURSIVE FullCookiesMap(_, _)
\* cookiesMap[item.Name] = cookieMap
FullCookiesMap(cs, b) ==
    IF cs = <<>> THEN <<>>
    ELSE LET rest == FullCookiesMap(SubSeq(cs, 1, Len(cs) - 1), b)
             last == cs[Len(cs)]
         IN  [k \in DOMAIN rest \cup {last.Name} |->
                 IF k = last.Name
                    THEN [fields |-> FullFields(b), Cookie |-> last]
                    ELSE rest[k]]

\* marshalFails: json.Marshal rejects a field value (a time out of range)
serializeFullCookieInfoToJson(cs, b, marshalFails) ==
    IF marshalFails THEN [value |-> "", err |-> "json: unsupported value"]
    ELSE [value |-> Marshal(FullCookiesMap(cs, b), ByteOf), err |-> NoErr]

RECURSIVE Join(_, _)
\* strings.Join
Join(parts, sep) ==
    IF parts = <<>> THEN <<>>
    ELSE IF Len(parts) = 1 THEN parts[1]
    ELSE parts[1] \o <<sep>> \o Join(Tail(parts), sep)

createCurlCommand(cs, d) ==
    LET cookieParts == [i \in 1..Len(cs) |-> <<cs[i].Name, "=", cs[i].Value>>]
    IN  <<"curl -H 'Cookie: ">> \o Join(cookieParts, ";")
            \o <<"' 'https://", d, "'">>

RECURSIVE getCookieValueSkipsEmpty(_, _)
\* a scan that goes on past a match with an empty value
getCookieValueSkipsEmpty(cs, n) ==
    IF cs = <<>> THEN [value |-> "", err |-> "cookie does not exist"]
    ELSE IF n = Head(cs).Name /\ Head(cs).Value # ""
        THEN [value |-> Head(cs).Value, err |-> NoErr]
    ELSE getCookieValueSkipsEmpty(Tail(cs), n)

RECURSIVE getCookieValue(_, _)
getCookieValue(cs, n) ==
    IF cs = <<>> THEN [value |-> "", err |-> "cookie does not exist"]
    ELSE IF n = Head(cs).Name
        THEN IF Head(cs).Value = ""
                THEN [value |-> "", err |-> "cookie exists but has an empty value"]
                ELSE [value |-> Head(cs).Value, err |-> NoErr]
    ELSE getCookieValue(Tail(cs), n)

formatStoreErrorsAsJson(errs) ==
    LET jsonErrors == [k \in {Itoa(i) : i \in 1..Len(errs)} |->
                          errs[CHOOSE i \in 1..Len(errs) : Itoa(i) = k]]
        rank == [k \in DOMAIN jsonErrors |->
                    Cardinality({j \in DOMAIN jsonErrors : DigitsLess(j, k)})]
    IN  [value |-> Marshal(jsonErrors, rank), err |-> NoErr]

----------------------------------------------------------------------------
(* run *)

Line(kind, body) == [kind |-> kind, body |-> body]

\* the command lines tried: every combination of flag values, each flag given
\* exactly when its value is not the default, and the line `-b chrome` that
\* gives a flag without changing a value
CommandLines ==
    {[domain |-> d, browser |-> Chrome, curl |-> c, name |-> n, full |-> f,
      expired |-> e, debug |-> l, help |-> h, browserGiven |-> FALSE] :
        d \in {"", "d"}, c \in BOOLEAN, n \in {"", "a", "b"}, f \in BOOLEAN,
        e \in BOOLEAN, l \in BOOLEAN, h \in BOOLEAN}
    \cup {[domain |-> "", browser |-> Chrome, curl |-> FALSE, name |-> "",
           full |-> FALSE, expired |-> FALSE, debug |-> FALSE, help |-> FALSE,
           browserGiven |-> TRUE]}

B2N(b) == IF b THEN 1 ELSE 0

\* pflag.NFlag() for a command line
NFlag(a) ==
    B2N(a.domain # "") + B2N(a.browserGiven) + B2N(a.curl) + B2N(a.name # "")
    + B2N(a.full) + B2N(a.expired) + B2N(a.debug) + B2N(a.help)

\* parseFlags, and the check of its result in run
ParseFlags ==
    /\ pc = "parseFlags"
    /\ \E a \in CommandLines :
        /\ domain' = a.domain
        /\ browser' = a.browser
        /\ curl' = a.curl
        /\ name' = a.name
        /\ fullCookieInfo' = a.full
        /\ showExpired' = a.expired
        /\ debug' = a.debug
        /\ help' = a.help
        /\ nflag' = NFlag(a)
    /\ IF help' \/ nflag' = 0
          THEN /\ stdout' = stdout \o <<Line("usage", "Obtain cookies from your browser stores"),
                                        Line("usage", "Use with the following flags:")>>
               /\ pc' = "exit"
               /\ err' = NoErr
          ELSE IF domain' = ""
          THEN /\ err' = "incorrect flag usage: flag domain is required"
               /\ pc' = "fatal"
               /\ stdout' = stdout
          ELSE IF curl' /\ name' # ""
          THEN /\ err' = "incorrect flag usage: curl and name are mutually exclusive"
               /\ pc' = "fatal"
               /\ stdout' = stdout
          ELSE /\ err' = NoErr
               /\ pc' = "getCookies"
               /\ stdout' = stdout
    /\ UNCHANGED <<cookieStoreErrors, cookieStores, idx, deferred, closed,
                   cookies, retValue, reads, origin>>

\* run after getCookies has returned: the error check and the debug line
AfterGetCookies ==
    /\ pc = "returned"
    /\ IF err # NoErr
          THEN /\ err' = "failed to obtain cookies"
               /\ pc' = "fatal"
               /\ stdout' = stdout
          ELSE /\ err' = NoErr
               /\ pc' = "output"
               /\ stdout' = IF debug
                     THEN Append(stdout,
                            Line("errors", formatStoreErrorsAsJson(cookieStoreErrors).value))
                     ELSE stdout
    /\ UNCHANGED <<flagVars, cookieStoreErrors, cookieStores, idx, deferred,
                   closed, cookies, retValue, reads, origin>>

\* a formatter's line is printed although the formatter failed
PrintUnlessErrIgnoresErr(out, kind, res) == Append(out, Line(kind, res.value))

\* if err != nil { return ... }; fmt.Println(result)
PrintUnlessErr(out, kind, res) ==
    IF res.err # NoErr THEN out ELSE Append(out, Line(kind, res.value))

\* how run ends after a formatter returned res
Finish(kind, res, context) ==
    /\ stdout' = PrintUnlessErr(stdout, kind, res)
    /\ IF res.err # NoErr
          THEN /\ err' = context
               /\ pc' = "fatal"
          ELSE /\ err' = NoErr
               /\ pc' = "exit"
    /\ UNCHANGED <<flagVars, cookieStoreErrors, cookieStores, idx, deferred,
                   closed, cookies, retValue, reads, origin>>

\* if name != ""
OutputValue ==
    /\ pc = "output"
    /\ name # ""
    /\ LET res == getCookieValue(cookies.elems, name) IN
        Finish("value", res,
               IF res.err = "cookie does not exist"
                  THEN "failed to get value: cookie does not exist"
                  ELSE "failed to get value: cookie exists but has an empty value")

\* else if curl
OutputCurl ==
    /\ pc = "output"
    /\ name = ""
    /\ curl
    /\ Finish("curl", [value |-> createCurlCommand(cookies.elems, domain),
                       err |-> NoErr], NoErr)

\* else if fullCookieInfo
OutputFull ==
    /\ pc = "output"
    /\ name = ""
    /\ ~curl
    /\ fullCookieInfo
    /\ \E marshalFails \in BOOLEAN :
        Finish("full",
               serializeFullCookieInfoToJson(cookies.elems, browser, marshalFails),
               "failed to create JSON")

\* else
OutputJson ==
    /\ pc = "output"
    /\ name = ""
    /\ ~curl
    /\ ~fullCookieInfo
    /\ Finish("json", serializeCookiesToJson(cookies.elems), "failed to create JSON")

\* the program before main runs: the flag variables hold their defaults
InitRun ==
    /\ browser = Chrome
    /\ curl = FALSE
    /\ domain = ""
    /\ name = ""
    /\ fullCookieInfo = FALSE
    /\ showExpired = FALSE
    /\ help = FALSE
    /\ debug = FALSE
    /\ nflag = 0
    /\ GetCookiesEntry
    /\ stdout = <<>>
    /\ retValue = "none"
    /\ pc = "parseFlags"

NextRun ==
    \/ ParseFlags
    \/ SkipStore
    \/ ReadStore
    \/ ReadPanics
    \/ ReturnGetCookies
    \/ AfterGetCookies
    \/ OutputValue
    \/ OutputCurl
    \/ OutputFull
    \/ OutputJson

SpecRun == InitRun /\ [][NextRun]_vars

----------------------------------------------------------------------------
(* The formatters applied on their own to any aggregated sequence *)

CallGetCookieValue ==
    /\ pc = "formatter"
    /\ retValue' = [fn |-> "getCookieValue",
                    res |-> getCookieValue(cookies.elems, name)]
    /\ pc' = "formatted"
    /\ UNCHANGED <<flagVars, cookieStoreErrors, cookieStores, idx, deferred,
                   closed, cookies, err, stdout, reads, origin>>

CallSerializeCookiesToJson ==
    /\ pc = "formatter"
    /\ retValue' = [fn |-> "serializeCookiesToJson",
                    res |-> serializeCookiesToJson(cookies.elems)]
    /\ pc' = "formatted"
    /\ UNCHANGED <<flagVars, cookieStoreErrors, cookieStores, idx, deferred,
                   closed, cookies, err, stdout, reads, origin>>

InitFmt ==
    /\ browser = Chrome
    /\ curl = FALSE
    /\ domain = "d"
    /\ name \in {"a", "b", "c"}
    /\ fullCookieInfo = FALSE
    /\ showExpired = FALSE
    /\ help = FALSE
    /\ debug = FALSE
    /\ nflag = 2
    /\ cookieStoreErrors = <<>>
    /\ cookieStores = <<>>
    /\ idx = 1
    /\ deferred = <<>>
    /\ closed = <<>>
    /\ cookies \in {Slice(s) : s \in SeqsUpTo(CookieRecs, MaxLen) \ {<<>>}}
    /\ err = NoErr
    /\ reads = <<>>
    /\ origin = <<>>
    /\ stdout = <<>>
    /\ retValue = "none"
    /\ pc = "formatter"

NextFmt == CallGetCookieValue \/ CallSerializeCookiesToJson

SpecFmt == InitFmt /\ [][NextFmt]_vars

----------------------------------------------------------------------------
(* Properties of getCookies *)

StoreIds == 1..Len(cookieStores)

RECURSIVE ConcatWhere(_, _)
\* the records of the visits of log whose kind is in kinds, in order
ConcatWhere(log, kinds) ==
    IF log = <<>> THEN <<>>
    ELSE (IF Head(log).kind \in kinds THEN Head(log).cookies ELSE <<>>)
         \o ConcatWhere(Tail(log), kinds)

RECURSIVE FailedReadTexts(_)
\* the error texts of the failed reads of log, in order
FailedReadTexts(log) ==
    IF log = <<>> THEN <<>>
    ELSE (IF Head(log).kind = "err" THEN <<Head(log).err>> ELSE <<>>)
         \o FailedReadTexts(Tail(log))

\* C1: when getCookies has returned, with a result or with an error, every
\* enumerated store has had Close called exactly once, whether it was skipped,
\* read, or read with an error; no store is ever closed twice.
C1_EveryStoreClosedOnce ==
    /\ \A i \in StoreIds : closed[i] <= 1
    /\ pc = "returned" => \A i \in StoreIds : closed[i] = 1

C1_Witness ==
    /\ pc = "returned"
    /\ Len(cookieStores) = 2
    /\ reads[1].kind = "skip"
    /\ reads[2].kind = "err"
    /\ closed[1] = 1 /\ closed[2] = 1

\* C2: when the read of a store panics, every enumerated store, those after
\* the panicking one included, has still been closed exactly once.
C2_ClosedOnceAfterPanic ==
    pc = "panicked" => \A i \in StoreIds : closed[i] = 1

\* C3: a failed read appends its error text to the Store Error list and the
\* loop goes on: the list always holds exactly the texts of the failed reads
\* in the order met, and at the return every store has been visited, the
\* matching ones read.
C3_ErrorsRecordedAndLoopGoesOn ==
    /\ cookieStoreErrors = FailedReadTexts(reads)
    /\ pc = "returned" =>
        /\ Len(reads) = Len(cookieStores)
        /\ \A j \in StoreIds :
            (reads[j].kind \in {"ok", "err"}) <=> (cookieStores[j] = browser)

C3_Witness ==
    /\ pc = "returned"
    /\ Len(reads) = 2
    /\ reads[1].kind = "err"
    /\ reads[2].kind = "ok"
    /\ Len(reads[2].cookies) > 0
    /\ cookieStoreErrors = <<reads[1].err>>

\* C4: the sequence getCookies returns is the concatenation of the records of
\* the successfully read stores only; a read that returned an error adds none.
C4_OnlySuccessfulReadsAggregated ==
    pc = "returned" => cookies.elems = ConcatWhere(reads, {"ok"})

\* C5: getCookies fails with the not-found error exactly when the aggregated
\* sequence is empty, whatever the number of recorded store errors.
C5_NotFoundIffEmpty ==
    pc = "returned" =>
        /\ (err = "no cookies found") <=> (ConcatWhere(reads, {"ok", "err"}) = <<>>)
        /\ (err = NoErr) <=> (Len(cookies.elems) > 0)
        /\ err \in {NoErr, "no cookies found"}

C5_Witness ==
    /\ pc = "returned"
    /\ err = NoErr
    /\ Len(cookieStoreErrors) > 0
    /\ Len(cookies.elems) > 0

\* C6: at every point every aggregated record comes from a store whose
\* browser equals the requested one; a store of another browser, one whose
\* identity contains the requested string included, is never read and adds
\* neither records nor store errors.
C6_OnlyRequestedBrowser ==
    /\ Len(origin) = Len(cookies.elems) \/ pc = "returned"
    /\ \A k \in 1..Len(origin) : cookieStores[origin[k]] = browser
    /\ \A j \in 1..Len(reads) :
        cookieStores[j] # browser => reads[j].kind = "skip"
    /\ Len(cookieStoreErrors) <=
        Cardinality({j \in 1..Len(reads) : cookieStores[j] = browser})

C6_Witness ==
    /\ pc = "returned"
    /\ browser = Chrom
    /\ cookieStores = <<Chrome, Chrom>>
    /\ reads[1].kind = "skip"
    /\ Len(cookies.elems) > 0

----------------------------------------------------------------------------
(* Properties of the formatters and of run *)

\* the positions of cs whose record is named n
Matches(cs, n) == {i \in 1..Len(cs) : cs[i].Name = n}
Min(S) == CHOOSE x \in S : \A y \in S : x <= y
Max(S) == CHOOSE x \in S : \A y \in S : x >= y

\* C7: getCookieValue returns the value of the first record named exactly as
\* requested when that value is not empty, fails with the empty-value error
\* when that first value is empty, whatever follows, and fails with the
\* not-found error when no record has the name.
C7_LookupFirstExactMatch ==
    (pc = "formatted" /\ retValue.fn = "getCookieValue") =>
        LET cs == cookies.elems
            ms == Matches(cs, name)
            res == retValue.res
        IN  IF ms = {}
               THEN res.err = "cookie does not exist" /\ res.value = ""
            ELSE IF cs[Min(ms)].Value = ""
               THEN res.err = "cookie exists but has an empty value" /\ res.value = ""
            ELSE res.err = NoErr /\ res.value = cs[Min(ms)].Value

C7_Witness ==
    /\ pc = "formatted"
    /\ retValue.fn = "getCookieValue"
    /\ name = "a"
    /\ cookies.elems = <<Cookie("b", "y"), Cookie("a", ""), Cookie("a", "x")>>
    /\ retValue.res.err = "cookie exists but has an empty value"

\* C8: for a non-empty sequence serializeCookiesToJson yields exactly one
\* entry per distinct cookie name, holding the value of the last record of
\* that name.
C8_JsonLastWriteWins ==
    (pc = "formatted" /\ retValue.fn = "serializeCookiesToJson") =>
        LET cs == cookies.elems
            json == retValue.res.value
            names == {cs[i].Name : i \in 1..Len(cs)}
        IN  /\ retValue.res.err = NoErr
            /\ {json[i][1] : i \in 1..Len(json)} = names
            /\ Len(json) = Cardinality(names)
            /\ \A i \in 1..Len(json) :
                json[i][2] = cs[Max(Matches(cs, json[i][1]))].Value

C8_Witness ==
    /\ pc = "formatted"
    /\ retValue.fn = "serializeCookiesToJson"
    /\ cookies.elems = <<Cookie("a", "x"), Cookie("b", "x"), Cookie("a", "y")>>
    /\ retValue.res.value = << <<"a", "y">>, <<"b", "x">> >>

ConfigValid == ~help /\ nflag > 0 /\ domain # "" /\ ~(curl /\ name # "")

DecimalKeys == << <<"1">>, <<"2">>, <<"3">>, <<"4">>, <<"5">> >>

\* the Store Error list as a mapping from "1".."n" to the texts
IsStoreErrorLine(line) ==
    /\ line.kind = "errors"
    /\ Len(line.body) = Len(cookieStoreErrors)
    /\ \A i \in 1..Len(cookieStoreErrors) :
        \E k \in 1..Len(line.body) :
            line.body[k] = <<DecimalKeys[i], cookieStoreErrors[i]>>

\* C9: whenever the debug flag is set and the configuration is valid, the run
\* has printed the Store Error list as a mapping from "1".."n" to the error
\* texts as its first line, whatever the outcome of the aggregation.
C9_DebugLineAlwaysPrinted ==
    (pc \in {"exit", "fatal"} /\ debug /\ ConfigValid) =>
        Len(stdout) >= 1 /\ IsStoreErrorLine(stdout[1])

MainKinds == {"value", "curl", "full", "json"}

\* the formatter the flags select
SelectedKind ==
    IF name # "" THEN "value"
    ELSE IF curl THEN "curl"
    ELSE IF fullCookieInfo THEN "full"
    ELSE "json"

\* the optional debug line followed by exactly one main result line
FullOutput ==
    LET main == stdout[Len(stdout)] IN
    /\ Len(stdout) = 1 + B2N(debug)
    /\ debug => IsStoreErrorLine(stdout[1])
    /\ main.kind = SelectedKind

\* C10 as stated: a run that ends in a fatal error has written nothing to
\* standard output, and a run that succeeds has written the optional debug
\* line followed by exactly one main result line.
C10_NothingOnFatal ==
    /\ pc = "fatal" => stdout = <<>>
    /\ (pc = "exit" /\ ConfigValid) => FullOutput

\* C10 amended: a run that ends in a fatal error has written no main result
\* line: its standard output is empty, or holds just the debug line when the
\* debug flag is set and the error came after the aggregation (lookup or
\* serialization); a run with a valid configuration that succeeds has written
\* the optional debug line followed by exactly one main result line.
C10_NoMainLineOnFatal ==
    /\ pc = "fatal" =>
        /\ \A i \in 1..Len(stdout) : stdout[i].kind \notin MainKinds
        /\ \/ stdout = <<>>
           \/ /\ debug
              /\ Len(stdout) = 1
              /\ IsStoreErrorLine(stdout[1])
              /\ err \in {"failed to get value: cookie does not exist",
                          "failed to get value: cookie exists but has an empty value",
                          "failed to create JSON"}
        /\ (err \in {"failed to obtain cookies",
                     "incorrect flag usage: flag domain is required",
                     "incorrect flag usage: curl and name are mutually exclusive"}
            \/ ~debug) => stdout = <<>>
    /\ (pc = "exit" /\ ConfigValid) => FullOutput

C10_Witness ==
    /\ pc = "fatal"
    /\ debug
    /\ err = "failed to get value: cookie exists but has an empty value"
    /\ Len(stdout) = 1
    /\ stdout[1].kind = "errors"
    /\ Len(cookieStoreErrors) = 1

====
